---- MODULE Spec2Model ----
(***************************************************************************)
(* The task store of src/src/hooks/useTasks.ts (the useTasks hook): the     *)
(* in-memory task list, the single-level undo candidate, the initial load   *)
(* effect and the four mutation callbacks addTask, updateTask, deleteTask   *)
(* and undoDelete.                                                          *)
(*                                                                          *)
(* A Task is a record [id, status, timeTaken, createdAt, completedAt].      *)
(* title, revenue, priority and notes are copied by every store operation   *)
(* exactly as the fields above are (object spread) and no store operation   *)
(* reads them, so they are not carried in the record; the metrics view,     *)
(* which reads revenue, counts every task with the same revenue.            *)
(*                                                                          *)
(* Time is counted in days: an ISO timestamp is the day number it denotes,  *)
(* so Date -> toISOString -> Date is the identity on valid days.            *)
(* Identifiers are integers: caller-supplied ids are 1..MaxCallerId, the    *)
(* k-th value returned by crypto.randomUUID() is -k (never equal to a       *)
(* caller-supplied id nor to an earlier UUID).                              *)
(***************************************************************************)
EXTENDS Integers, Sequences, FiniteSets, TLC

\* ------------------------------------------------------------------ bounds
MaxTasks == 2      \* addTask is not offered beyond this list length
MaxFieldTasks == 2 \* the same, where every field of a task varies
MaxCallerId == 2   \* caller-supplied ids are 1..MaxCallerId
MaxUuid == 1       \* UUIDs that addTask may draw
MaxTicks == 1      \* days the clock may advance after construction
MaxRaw == 2        \* longest fetched array
SeedCount == 2     \* length of the generated fallback list (50 in the code)

\* ------------------------------------------------------------------ values
\* JavaScript's undefined, for the optional fields id (of addTask's argument),
\* createdAt and completedAt; every real id and day differs from it.
Undefined == 0

\* lastDeleted is Task | null: the empty sequence is null, <<t>> is the task t.
null == << >>

Statuses == {"Todo", "In Progress", "Done"}

CallerIds == 1 .. MaxCallerId

\* The day of construction: late enough for the normalizer's synthetic
\* createdAt (now - (idx + 1) days) to stay a real day.
StartDay == MaxRaw + SeedCount + 1

VARIABLES
    tasks,        \* useState<Task[]>([])                      line 38
    loading,      \* useState(true)                            line 39
    error,        \* useState<string | null>(null)             line 40
    lastDeleted,  \* useState<Task | null>(null)               line 41
    fetchedRef,   \* useRef(false)                             line 42
    isMounted,    \* the flag of the effect run that called load(), line 90
    fetchState,   \* "idle" | "pending" | "settled": the promise of load()
    effect,       \* the effect run now set up: "none", "loader" (it called
                  \* load() and returned the cleanup) or "guarded" (it
                  \* returned at the fetchedRef guard, with no cleanup)
    now,          \* the clock read by Date.now() / new Date()
    uuids         \* how many values crypto.randomUUID() has returned

progVars == <<tasks, loading, error, lastDeleted, fetchedRef, isMounted,
              fetchState, effect, now, uuids>>

\* History variables: they record what was called and are read by no action.
VARIABLES
    hist,         \* the latest calls of the callbacks, oldest first
    snap          \* the task list as it was before the latest call

vars == <<tasks, loading, error, lastDeleted, fetchedRef, isMounted,
          fetchState, effect, now, uuids, hist, snap>>

\* ------------------------------------------------------------ list helpers
\* Array.prototype.find(t => t.id === id) || null
Find(ts, id) ==
    IF \E i \in 1 .. Len(ts) : ts[i].id = id
    THEN <<ts[CHOOSE i \in 1 .. Len(ts) :
                /\ ts[i].id = id
                /\ \A j \in 1 .. (i - 1) : ts[j].id # id]>>
    ELSE null

\* Array.prototype.filter(t => t.id !== id)
FilterOut(ts, id) == SelectSeq(ts, LAMBDA t : t.id # id)

\* the k-th value of crypto.randomUUID()
Uuid(k) == 0 - k

\* ------------------------------------------------- normalizer and sanitizer
\* One record of normalizeTasks' map callback; idx is the 0-based index.
NormalizeOne(t, idx, today) ==
    LET created == IF t.createdAt # Undefined THEN t.createdAt
                   ELSE today - (idx + 1)
        completed == IF t.completedAt # Undefined THEN t.completedAt
                     ELSE IF t.status = "Done" THEN created + 1
                     ELSE Undefined
    IN  [id |-> t.id,
         status |-> t.status,
         timeTaken |-> IF t.timeTaken > 0 THEN t.timeTaken ELSE 1,
         createdAt |-> created,
         completedAt |-> completed]

\* What res.json() returns is a JSON value: an array of records, or a value
\* that is not an array (an object, a string, a number, null).
JsonArray(items) == [isArray |-> TRUE, items |-> items]

NotAnArray == [isArray |-> FALSE, items |-> << >>]

\* Array.isArray(input) ? input : []
ArrayOrEmpty(input) == IF input.isArray THEN input.items ELSE << >>

normalizeTasks(input, today) ==
    LET arr == ArrayOrEmpty(input)
    IN  [i \in 1 .. Len(arr) |-> NormalizeOne(arr[i], i - 1, today)]

\* SanitizeOne without lines 77-79: an id that was seen is kept
SanitizeOneKeepsDuplicates(t, seen, drawn, today) ==
    LET hasId == t.id # Undefined
        id == IF hasId THEN t.id ELSE Uuid(drawn + 1)
        drawn1 == IF hasId THEN drawn ELSE drawn + 1
        timeTaken == IF t.timeTaken > 0 THEN t.timeTaken ELSE 1
        status == IF t.status \in Statuses THEN t.status ELSE "Todo"
        createdAt == IF t.createdAt # Undefined THEN t.createdAt ELSE today
        completedAt == IF t.completedAt # Undefined THEN t.completedAt
                       ELSE IF status = "Done" THEN createdAt
                       ELSE Undefined
    IN  [task |-> [id |-> id, status |-> status, timeTaken |-> timeTaken,
                   createdAt |-> createdAt, completedAt |-> completedAt],
         seen |-> seen \cup {id},
         drawn |-> drawn1]

\* One record of sanitizeTasks' map callback, given the ids seen so far and
\* the number of UUIDs drawn so far: the task, and both updated.
SanitizeOne(t, seen, drawn, today) ==
    LET hasId == t.id # Undefined
        id == IF hasId THEN t.id ELSE Uuid(drawn + 1)
        drawn1 == IF hasId THEN drawn ELSE drawn + 1
        timeTaken == IF t.timeTaken > 0 THEN t.timeTaken ELSE 1
        status == IF t.status \in Statuses THEN t.status ELSE "Todo"
        createdAt == IF t.createdAt # Undefined THEN t.createdAt ELSE today
        completedAt == IF t.completedAt # Undefined THEN t.completedAt
                       ELSE IF status = "Done" THEN createdAt
                       ELSE Undefined
        dup == id \in seen
        finalId == IF dup THEN Uuid(drawn1 + 1) ELSE id
        drawn2 == IF dup THEN drawn1 + 1 ELSE drawn1
    IN  [task |-> [id |-> finalId, status |-> status, timeTaken |-> timeTaken,
                   createdAt |-> createdAt, completedAt |-> completedAt],
         seen |-> seen \cup {finalId},
         drawn |-> drawn2]

\* sanitizeTasks over the first k records: [out, seen, drawn].  Its callers
\* pass arrays only (line 100), so input is the array itself.
RECURSIVE SanitizePrefix(_, _, _, _)
SanitizePrefix(input, k, drawn, today) ==
    IF k = 0 THEN [out |-> << >>, seen |-> {}, drawn |-> drawn]
    ELSE LET p == SanitizePrefix(input, k - 1, drawn, today)
             r == SanitizeOne(input[k], p.seen, p.drawn, today)
         IN  [out |-> Append(p.out, r.task), seen |-> r.seen, drawn |-> r.drawn]

sanitizeTasks(input, drawn, today) ==
    SanitizePrefix(input, Len(input), drawn, today)

\* generateSalesTasks(n) of utils/seed: n synthetic records; st gives their
\* statuses.  Each has its own id, a positive duration and a creation day.
generateSalesTasks(n, st) ==
    [i \in 1 .. n |-> [id |-> MaxCallerId + i,
                       status |-> st[i],
                       timeTaken |-> 2,
                       createdAt |-> 1,
                       completedAt |-> Undefined]]

\* LoadedList with the fallback whatever was fetched
LoadedListSeedsAlways(data, seedStatuses, drawn, today) ==
    sanitizeTasks(generateSalesTasks(SeedCount, seedStatuses), drawn, today)

\* The body of load() between the two awaits and the state writes
\* (lines 98-100): the list handed to setTasks and the UUIDs drawn.
LoadedList(data, seedStatuses, drawn, today) ==
    LET normalized == normalizeTasks(data, today)
        fallback == generateSalesTasks(SeedCount, seedStatuses)
    IN  sanitizeTasks(IF Len(normalized) > 0 THEN normalized ELSE fallback,
                      drawn, today)

\* ------------------------------------------------------------- the inputs
\* An optional property of a patch (Partial<Task>) or of addTask's argument
\* (Omit<Task, 'id'> & { id?: string }) is a sequence: << >> when the key is absent, <<v>> when it is v.
Absent == << >>

Opt(S) == {Absent} \cup {<<v>> : v \in S}

\* the durations callers pass: negative, zero and positive
TimeTakenInputs == {0 - 1, 0, 2}

NoPatch ==
    [id |-> Absent, status |-> Absent, timeTaken |-> Absent,
     createdAt |-> Absent, completedAt |-> Absent]

\* the ids a caller may name: those in the list and the caller-supplied ones
\* (which may be absent from the list)
IdsOf(ts) == {ts[i].id : i \in 1 .. Len(ts)}

NameableIds == IdsOf(tasks) \cup CallerIds

\* ------------------------------------------------------ the store operations
\* NewTask without the correction of line 138
NewTaskKeepsDuration(data, uuid, today) ==
    LET id == IF data.id # Absent THEN data.id[1] ELSE uuid
        createdAt == today
        completedAt == IF data.status = "Done" THEN createdAt ELSE Undefined
    IN  [id |-> id, status |-> data.status, timeTaken |-> data.timeTaken,
         createdAt |-> createdAt, completedAt |-> completedAt]

\* addTask's new element (lines 137-142); uuid is what randomUUID() returns.
NewTask(data, uuid, today) ==
    LET id == IF data.id # Absent THEN data.id[1] ELSE uuid
        timeTaken == IF data.timeTaken <= 0 THEN 1 ELSE data.timeTaken
        createdAt == today
        completedAt == IF data.status = "Done" THEN createdAt ELSE Undefined
    IN  [id |-> id, status |-> data.status, timeTaken |-> timeTaken,
         createdAt |-> createdAt, completedAt |-> completedAt]

\* { ...t, ...patch }
Merge(t, patch) ==
    [id |-> IF patch.id # Absent THEN patch.id[1] ELSE t.id,
     status |-> IF patch.status # Absent THEN patch.status[1] ELSE t.status,
     timeTaken |-> IF patch.timeTaken # Absent THEN patch.timeTaken[1]
                   ELSE t.timeTaken,
     createdAt |-> IF patch.createdAt # Absent THEN patch.createdAt[1]
                   ELSE t.createdAt,
     completedAt |-> IF patch.completedAt # Absent THEN patch.completedAt[1]
                     ELSE t.completedAt]

\* MergeStep without the stamp of line 152
MergeStepNoStamp(t, id, patch, today) ==
    IF t.id # id THEN t ELSE Merge(t, patch)

\* MergeStep with line 151 reduced to merged.status === 'Done'
MergeStepRestamps(t, id, patch, today) ==
    IF t.id # id THEN t
    ELSE LET merged == Merge(t, patch)
         IN  IF merged.status = "Done"
             THEN [merged EXCEPT !.completedAt = today]
             ELSE merged

\* MergeStep without the id test of line 149
MergeStepEvery(t, id, patch, today) ==
    LET merged == Merge(t, patch)
    IN  IF /\ t.status # "Done"
           /\ merged.status = "Done"
           /\ merged.completedAt = Undefined
        THEN [merged EXCEPT !.completedAt = today]
        ELSE merged

\* the first map of updateTask (lines 148-155)
MergeStep(t, id, patch, today) ==
    IF t.id # id THEN t
    ELSE LET merged == Merge(t, patch)
         IN  IF /\ t.status # "Done"
                /\ merged.status = "Done"
                /\ merged.completedAt = Undefined
             THEN [merged EXCEPT !.completedAt = today]
             ELSE merged

\* the second map of updateTask (line 157), over the merged element
PositiveStep(t, id, patch) ==
    IF /\ t.id = id
       /\ (IF patch.timeTaken # Absent THEN patch.timeTaken[1]
           ELSE t.timeTaken) <= 0
    THEN [t EXCEPT !.timeTaken = 1]
    ELSE t

UpdatedList(ts, id, patch, today) ==
    [i \in 1 .. Len(ts) |->
        PositiveStep(MergeStep(ts[i], id, patch, today), id, patch)]

addTask(data) ==
    /\ tasks' = Append(tasks, NewTask(data, Uuid(uuids + 1), now))
    /\ uuids' = IF data.id = Absent THEN uuids + 1 ELSE uuids
    /\ UNCHANGED <<loading, error, lastDeleted, fetchedRef, isMounted,
                   fetchState, effect, now>>

updateTask(id, patch) ==
    /\ tasks' = UpdatedList(tasks, id, patch, now)
    /\ UNCHANGED <<loading, error, lastDeleted, fetchedRef, isMounted,
                   fetchState, effect, now, uuids>>

deleteTask(id) ==
    /\ lastDeleted' = Find(tasks, id)
    /\ tasks' = FilterOut(tasks, id)
    /\ UNCHANGED <<loading, error, fetchedRef, isMounted, fetchState, effect,
                   now, uuids>>

\* undoDelete without line 172: the candidate is kept
undoDeleteKeepsCandidate ==
    /\ IF lastDeleted = null
       THEN UNCHANGED <<tasks, lastDeleted>>
       ELSE /\ tasks' = Append(tasks, lastDeleted[1])
            /\ lastDeleted' = lastDeleted
    /\ UNCHANGED <<loading, error, fetchedRef, isMounted, fetchState, effect,
                   now, uuids>>

undoDelete ==
    /\ IF lastDeleted = null
       THEN UNCHANGED <<tasks, lastDeleted>>
       ELSE /\ tasks' = Append(tasks, lastDeleted[1])
            /\ lastDeleted' = null
    /\ UNCHANGED <<loading, error, fetchedRef, isMounted, fetchState, effect,
                   now, uuids>>

\* Two invocations of the undoDelete callback of one render, made before the
\* component renders again (one handler calling it twice): useCallback
\* (line 173) makes a new callback only on a render, so both read the
\* lastDeleted of that render at line 170, and the two updaters queued at
\* line 171 are applied one after the other.
undoDeleteTwice ==
    /\ IF lastDeleted = null
       THEN UNCHANGED <<tasks, lastDeleted>>
       ELSE /\ tasks' = Append(Append(tasks, lastDeleted[1]), lastDeleted[1])
            /\ lastDeleted' = null
    /\ UNCHANGED <<loading, error, fetchedRef, isMounted, fetchState, effect,
                   now, uuids>>

\* ------------------------------------------------------- the metrics view
INITIAL_METRICS ==
    [totalRevenue |-> 0, totalTimeTaken |-> 0, timeEfficiencyPct |-> 0,
     revenuePerHour |-> 0, averageROI |-> 0,
     performanceGrade |-> "Needs Improvement"]

\* The functions of utils/logic, after section 4.4 of the specification.
\* The record of a task carries no revenue: every task counts with the same
\* revenue.  NaN stands for what JavaScript makes of a division by zero.
RevenueOfTask == 100

NaN == 0 - 1

Ratio(a, b) == IF b = 0 THEN NaN ELSE a \div b

\* Array.prototype.reduce((s, x) => s + x, 0)
RECURSIVE Sum(_)
Sum(xs) == IF xs = << >> THEN 0 ELSE Head(xs) + Sum(Tail(xs))

totalTimeTakenOf(ts) == Sum([i \in 1 .. Len(ts) |-> ts[i].timeTaken])

computeTotalRevenue(ts) == Len(ts) * RevenueOfTask

computeTimeEfficiency(ts) ==
    Ratio(100 * Sum([i \in 1 .. Len(ts) |->
                        IF ts[i].status = "Done" THEN 1 ELSE 0]),
          Len(ts))

computeRevenuePerHour(ts) ==
    Ratio(computeTotalRevenue(ts), totalTimeTakenOf(ts))

computeAverageROI(ts) ==
    Ratio(Sum([i \in 1 .. Len(ts) |-> Ratio(RevenueOfTask, ts[i].timeTaken)]),
          Len(ts))

computePerformanceGrade(avgROI) ==
    IF avgROI > 500 THEN "Excellent"
    ELSE IF avgROI >= 200 THEN "Good"
    ELSE "Needs Improvement"

\* the computation of lines 126-132
ComputedMetrics(ts) ==
    [totalRevenue |-> computeTotalRevenue(ts),
     totalTimeTaken |-> totalTimeTakenOf(ts),
     timeEfficiencyPct |-> computeTimeEfficiency(ts),
     revenuePerHour |-> computeRevenuePerHour(ts),
     averageROI |-> computeAverageROI(ts),
     performanceGrade |-> computePerformanceGrade(computeAverageROI(ts))]

\* metrics without line 125
metricsNoDefault(ts) == ComputedMetrics(ts)

\* the metrics memo (lines 124-133), recomputed whenever tasks changes
metrics(ts) == IF Len(ts) = 0 THEN INITIAL_METRICS ELSE ComputedMetrics(ts)

\* ------------------------------------------------------ the initial load
\* the statuses generateSalesTasks may give its records
SeedStatuses == [1 .. SeedCount -> {"Todo", "Done"}]

\* EffectRun without the guard of line 87
EffectRunNoGuard ==
    /\ effect = "none"
    /\ effect' = "loader"
    /\ fetchedRef' = TRUE
    /\ isMounted' = TRUE
    /\ fetchState' = "pending"
    /\ UNCHANGED <<tasks, loading, error, lastDeleted, now, uuids>>

\* the effect callback (lines 86-116)
EffectRun ==
    /\ effect = "none"
    /\ IF fetchedRef
       THEN /\ effect' = "guarded"
            /\ UNCHANGED <<fetchedRef, isMounted, fetchState>>
       ELSE /\ effect' = "loader"
            /\ fetchedRef' = TRUE
            /\ isMounted' = TRUE
            /\ fetchState' = "pending"
    /\ UNCHANGED <<tasks, loading, error, lastDeleted, now, uuids>>

\* the teardown of the effect: the cleanup of lines 113-115, when the run
\* returned one
EffectCleanup ==
    /\ effect # "none"
    /\ effect' = "none"
    /\ isMounted' = IF effect = "loader" THEN FALSE ELSE isMounted
    /\ UNCHANGED <<tasks, loading, error, lastDeleted, fetchedRef, fetchState,
                   now, uuids>>

\* load() after a successful fetch and parse (lines 97-101, 104-107)
LoadResolve(data, seedStatuses) ==
    /\ fetchState = "pending"
    /\ fetchState' = "settled"
    /\ LET r == LoadedList(data, seedStatuses, uuids, now)
       IN  /\ uuids' = r.drawn
           /\ tasks' = IF isMounted THEN r.out ELSE tasks
    /\ loading' = IF isMounted THEN FALSE ELSE loading
    /\ UNCHANGED <<error, lastDeleted, fetchedRef, isMounted, effect, now>>

\* e?.message ?? 'Failed to load tasks': the message of the error thrown at
\* line 96 or by fetch or json(), or the default when it has none
ErrorMessages == {"Failed to load tasks.json (404)", "Failed to load tasks"}

\* LoadReject without the isMounted tests of lines 103 and 105
LoadRejectUnguarded ==
    /\ fetchState = "pending"
    /\ fetchState' = "settled"
    /\ \E msg \in ErrorMessages : error' = msg
    /\ loading' = FALSE
    /\ UNCHANGED <<tasks, lastDeleted, fetchedRef, isMounted, effect, now,
                   uuids>>

\* load() when fetch rejects, the status is not ok or the body does not
\* parse (lines 96, 102-107)
LoadReject ==
    /\ fetchState = "pending"
    /\ fetchState' = "settled"
    /\ \E msg \in ErrorMessages : error' = IF isMounted THEN msg ELSE error
    /\ loading' = IF isMounted THEN FALSE ELSE loading
    /\ UNCHANGED <<tasks, lastDeleted, fetchedRef, isMounted, effect, now,
                   uuids>>

\* the clock advances
Tick ==
    /\ now' = now + 1
    /\ UNCHANGED <<tasks, loading, error, lastDeleted, fetchedRef, isMounted,
                   fetchState, effect, uuids>>

\* --------------------------------------------------------------- history
\* hist holds the latest calls of the callbacks, oldest first: the latest
\* addTask or updateTask call and the deleteTask / undoDelete calls made
\* since (at most HistLen calls in all).  Each entry has the name of the
\* call, the id it named (Undefined when it names none), whether a task had
\* that id, its argument, and for updateTask and undoDelete the undo
\* candidate held when it was made (null for addTask and deleteTask).
\* snap is the list as it was before the latest addTask, updateTask or
\* deleteTask call.  Every other step (a tick of the clock, the effect, the
\* fetch) empties both, so that a state with a history is one in which now
\* is still the time of those calls.
HistLen == 4

Push(c) == IF Len(hist) < HistLen THEN Append(hist, c)
           ELSE Append(Tail(hist), c)

Entry(op, id, arg, candidate) ==
    [op |-> op, id |-> id, hit |-> id \in IdsOf(tasks), arg |-> arg,
     candidate |-> candidate]

RecordAdd(data) ==
    /\ hist' = <<Entry("addTask", Undefined, data, null)>>
    /\ snap' = tasks

RecordUpdate(id, patch) ==
    /\ hist' = <<Entry("updateTask", id, patch, lastDeleted)>>
    /\ snap' = tasks

RecordDelete(id) ==
    /\ hist' = Push(Entry("deleteTask", id, Absent, null))
    /\ snap' = tasks

RecordUndo ==
    /\ hist' = Push(Entry("undoDelete", Undefined, Absent, lastDeleted))
    /\ snap' = snap

RecordNone ==
    /\ hist' = << >>
    /\ snap' = << >>

\* ------------------------------------------------------- the whole program
Init ==
    /\ tasks = << >>
    /\ loading = TRUE
    /\ error = "null"
    /\ lastDeleted = null
    /\ fetchedRef = FALSE
    /\ isMounted = FALSE
    /\ fetchState = "idle"
    /\ effect = "none"
    /\ now = StartDay
    /\ uuids = 0
    /\ hist = << >>
    /\ snap = << >>

\* What the user does while the component is set up, and what the effect
\* and the fetch do, in any order.
UserAdds == [id : {Absent}, status : {"Done"}, timeTaken : {0}]

\* what the fetch may deliver: a value that is not an array, an empty array,
\* or one record of tasks.json one or more times over
RawDone ==
    [id |-> 1, status |-> "Done", timeTaken |-> 0, createdAt |-> Undefined,
     completedAt |-> Undefined]

FetchedPayloads ==
    {NotAnArray} \cup {JsonArray([i \in 1 .. n |-> RawDone]) : n \in 0 .. MaxRaw}

UserPatches == {[NoPatch EXCEPT !.status = <<"Todo">>]}

Next ==
    \/ /\ EffectRun
       /\ RecordNone
    \/ /\ EffectCleanup
       /\ RecordNone
    \/ \E data \in FetchedPayloads, st \in SeedStatuses :
          /\ LoadResolve(data, st)
          /\ RecordNone
    \/ /\ LoadReject
       /\ RecordNone
    \/ /\ now < StartDay + MaxTicks
       /\ Tick
       /\ RecordNone
    \/ \E data \in UserAdds :
          /\ effect # "none"
          /\ Len(tasks) < MaxTasks
          /\ data.id = Absent => uuids < MaxUuid
          /\ addTask(data)
          /\ RecordAdd(data)
    \/ \E id \in NameableIds, patch \in UserPatches :
          /\ effect # "none"
          /\ updateTask(id, patch)
          /\ RecordUpdate(id, patch)
    \/ \E id \in NameableIds :
          /\ effect # "none"
          /\ deleteTask(id)
          /\ RecordDelete(id)
    \/ /\ effect # "none"
       /\ undoDelete
       /\ RecordUndo

Spec == Init /\ [][Next]_vars

\* The store once the first effect run has loaded data: the state that
\* Init, EffectRun, LoadResolve(data, seedStatuses) lead to.
Loaded(data, seedStatuses) ==
    LET r == LoadedList(data, seedStatuses, 0, StartDay)
    IN  /\ tasks = r.out
        /\ loading = FALSE
        /\ error = "null"
        /\ lastDeleted = null
        /\ fetchedRef = TRUE
        /\ isMounted = TRUE
        /\ fetchState = "settled"
        /\ effect = "loader"
        /\ now = StartDay
        /\ uuids = r.drawn
        /\ hist = << >>
        /\ snap = << >>

\* ------------------------------------------- the store: lists and the undo
\* The callbacks on a store that has loaded one record, over tasks that
\* differ in id and status.
StorePayloads == {JsonArray(<<RawDone>>)}

StoreAdds == [id : Opt(CallerIds), status : {"Todo", "Done"}, timeTaken : {2}]

StorePatches ==
    {[NoPatch EXCEPT !.id = <<i>>] : i \in CallerIds}
    \cup {[NoPatch EXCEPT !.status = <<"Done">>]}

InitStore == \E data \in StorePayloads, st \in SeedStatuses : Loaded(data, st)

NextStore ==
    \/ \E data \in StoreAdds :
          /\ Len(tasks) < MaxTasks
          /\ data.id = Absent => uuids < MaxUuid
          /\ addTask(data)
          /\ RecordAdd(data)
    \/ \E id \in NameableIds, patch \in StorePatches :
          /\ updateTask(id, patch)
          /\ RecordUpdate(id, patch)
    \/ \E id \in NameableIds :
          /\ deleteTask(id)
          /\ RecordDelete(id)
    \/ /\ undoDelete
       /\ RecordUndo

SpecStore == InitStore /\ [][NextStore]_vars

\* --------------------------------------------- the store: the task fields
\* addTask and updateTask on a loaded store with a clock that advances, over
\* every argument of addTask and over the patches of one key, alone or
\* together with an id.
FieldAdds ==
    [id : Opt({1}), status : {"Todo", "Done"}, timeTaken : TimeTakenInputs]

OneKeyPatches ==
    {[NoPatch EXCEPT !.status = <<v>>] : v \in Statuses}
    \cup {[NoPatch EXCEPT !.timeTaken = <<v>>] : v \in {0, 2}}
    \cup {[NoPatch EXCEPT !.createdAt = <<v>>] : v \in {1}}
    \cup {[NoPatch EXCEPT !.completedAt = <<v>>] : v \in {1}}

FieldPatches ==
    OneKeyPatches
    \cup {[p EXCEPT !.id = <<1>>] : p \in OneKeyPatches \cup {NoPatch}}

NextFields ==
    \/ /\ now < StartDay + MaxTicks
       /\ Tick
       /\ RecordNone
    \/ \E data \in FieldAdds :
          /\ Len(tasks) < MaxFieldTasks
          /\ data.id = Absent => uuids < MaxUuid
          /\ addTask(data)
          /\ RecordAdd(data)
    \/ \E id \in NameableIds, patch \in FieldPatches :
          /\ updateTask(id, patch)
          /\ RecordUpdate(id, patch)

SpecFields == InitStore /\ [][NextFields]_vars

\* ------------------------------------------------- the initial load alone
\* The effect, its teardown and the settling of the fetch, with no user
\* operation.  hist is the settling of the fetch, with the value fetched;
\* the runs and teardowns of the effect leave it as it is.
LoadRecords ==
    [id : {Undefined, 1}, status : {"Todo", "Done"}, timeTaken : {0},
     createdAt : {Undefined}, completedAt : {Undefined}]

LoadBodies ==
    {NotAnArray}
    \cup {JsonArray(a) : a \in UNION {[1 .. n -> LoadRecords] : n \in 0 .. MaxRaw}}

RecordKeep == UNCHANGED <<hist, snap>>

RecordSettle(op, body) ==
    /\ hist' = <<Entry(op, Undefined, body, null)>>
    /\ snap' = tasks

\* the promise of load() settles
LoadSettles ==
    \/ \E body \in LoadBodies, st \in SeedStatuses :
          /\ LoadResolve(body, st)
          /\ RecordSettle("LoadResolve", body)
    \/ /\ LoadReject
       /\ RecordSettle("LoadReject", NotAnArray)

NextLoad ==
    \/ /\ EffectRun
       /\ RecordKeep
    \/ /\ EffectCleanup
       /\ RecordKeep
    \/ LoadSettles

SpecLoad == Init /\ [][NextLoad]_vars

\* a fetch that was started settles in the end
SpecLoadFair == SpecLoad /\ WF_vars(LoadSettles)

\* ------------------------------------------ the store: the undo callback
\* addTask, deleteTask and undoDelete on a loaded store, where a handler may
\* also invoke undoDelete twice before the next render.
RecordUndoTwice ==
    /\ hist' = Push(Entry("undoDeleteTwice", Undefined, Absent, lastDeleted))
    /\ snap' = snap

NextUndo ==
    \/ \E data \in StoreAdds :
          /\ Len(tasks) < MaxTasks
          /\ data.id = Absent => uuids < MaxUuid
          /\ addTask(data)
          /\ RecordAdd(data)
    \/ \E id \in NameableIds :
          /\ deleteTask(id)
          /\ RecordDelete(id)
    \/ /\ undoDelete
       /\ RecordUndo
    \/ /\ undoDeleteTwice
       /\ RecordUndoTwice

SpecUndo == InitStore /\ [][NextUndo]_vars

\* ------------------------------------ the normalizer and the sanitizer alone
\* normalizeTasks and sanitizeTasks applied to an array, as functions: snap
\* is the array given, tasks the array returned, hist the call.
RawInputs ==
    [id : {Undefined} \cup CallerIds,
     status : {"Done", "Unknown"},
     timeTaken : {0, 2},
     createdAt : {Undefined, 1},
     completedAt : {Undefined, 3}]

RawArrays == UNION {[1 .. n -> RawInputs] : n \in 0 .. MaxRaw}

InitPure ==
    /\ tasks = << >>
    /\ loading = TRUE
    /\ error = "null"
    /\ lastDeleted = null
    /\ fetchedRef = FALSE
    /\ isMounted = FALSE
    /\ fetchState = "idle"
    /\ effect = "none"
    /\ now = StartDay
    /\ uuids = 0
    /\ hist = << >>
    /\ snap \in RawArrays

ApplyNormalize ==
    /\ hist = << >>
    /\ tasks' = normalizeTasks(JsonArray(snap), now)
    /\ hist' = <<Entry("normalizeTasks", Undefined, Absent, null)>>
    /\ UNCHANGED <<loading, error, lastDeleted, fetchedRef, isMounted,
                   fetchState, effect, now, uuids, snap>>

ApplySanitize ==
    /\ hist = << >>
    /\ LET r == sanitizeTasks(snap, uuids, now)
       IN  /\ tasks' = r.out
           /\ uuids' = r.drawn
    /\ hist' = <<Entry("sanitizeTasks", Undefined, Absent, null)>>
    /\ UNCHANGED <<loading, error, lastDeleted, fetchedRef, isMounted,
                   fetchState, effect, now, snap>>

NextPure == ApplyNormalize \/ ApplySanitize

SpecPure == InitPure /\ [][NextPure]_vars

\* ================================================================ claims
\* ------------------------------------------------ helpers of the claims
\* the list without its i-th element
RemoveAt(s, i) == [k \in 1 .. (Len(s) - 1) |-> IF k < i THEN s[k] ELSE s[k + 1]]

\* the elements of s whose id is not id, in order
Others(s, id) == SelectSeq(s, LAMBDA t : t.id # id)

\* i is the position of the first element of s with this id
IsFirstWith(s, i, id) ==
    /\ i \in 1 .. Len(s)
    /\ s[i].id = id
    /\ \A j \in 1 .. (i - 1) : s[j].id # id

IsDelete(c) == c.op = "deleteTask"
IsUndo(c) == c.op = "undoDelete"

\* C1: in every reachable state no two tasks of the list have the same id.
C1_UniqueIds ==
    \A i, j \in 1 .. Len(tasks) : i # j => tasks[i].id # tasks[j].id

\* C2: right after deleteTask(a) removed a task and deleteTask(x) named an
\* id that no task has, the list is what it was before deleteTask(x) and
\* the undo candidate is still the task deleteTask(a) removed.
C2_AbsentDeleteKeepsCandidate ==
    LET n == Len(hist)
    IN  (/\ n >= 2
         /\ IsDelete(hist[n - 1]) /\ hist[n - 1].hit
         /\ IsDelete(hist[n]) /\ ~hist[n].hit)
        => /\ tasks = snap
           /\ lastDeleted # null
           /\ lastDeleted[1].id = hist[n - 1].id

\* C3: right after deleteTask(id), with a task of that id at position i of
\* the list, and then undoDelete, the list is the earlier list with its
\* i-th task moved to the end, and there is no undo candidate.
C3_DeleteUndoRestores ==
    LET n == Len(hist)
    IN  (/\ n >= 2
         /\ IsDelete(hist[n - 1]) /\ hist[n - 1].hit
         /\ IsUndo(hist[n]))
        => /\ lastDeleted = null
           /\ \A i \in 1 .. Len(snap) :
                 snap[i].id = hist[n - 1].id
                 => tasks = Append(RemoveAt(snap, i), snap[i])

C5_PositiveTimeTaken ==
    \A i \in 1 .. Len(tasks) : tasks[i].timeTaken > 0

\* the latest call, when nothing but it has happened since
JustCalled(op) == Len(hist) = 1 /\ hist[1].op = op

\* C6: right after an updateTask(id, patch) whose patch sets status to Done
\* and holds no completedAt, each task that had this id and was not Done has
\* completedAt equal to the current time.
C6_DoneStampsNow ==
    (/\ JustCalled("updateTask")
     /\ hist[1].arg.status = <<"Done">>
     /\ hist[1].arg.completedAt = Absent)
    => \A i \in 1 .. Len(snap) :
          (snap[i].id = hist[1].id /\ snap[i].status # "Done")
          => tasks[i].completedAt = now

\* C6 as amended: right after such a call, each task that had this id, was
\* not Done and had no completedAt has completedAt equal to the current
\* time, and each task that had this id, was not Done and had a completedAt
\* has that completedAt.
C6_DoneStampsNowWhenUnset ==
    (/\ JustCalled("updateTask")
     /\ hist[1].arg.status = <<"Done">>
     /\ hist[1].arg.completedAt = Absent)
    => \A i \in 1 .. Len(snap) :
          (snap[i].id = hist[1].id /\ snap[i].status # "Done")
          => tasks[i].completedAt =
                IF snap[i].completedAt = Undefined THEN now
                ELSE snap[i].completedAt

\* C6's case: the latest call was updateTask with a patch of status Done
\* alone, on a task that was not Done, had no completedAt and was created
\* on an earlier day; it is now Done.
C6_Witness ==
    /\ JustCalled("updateTask")
    /\ hist[1].arg = [NoPatch EXCEPT !.status = <<"Done">>]
    /\ \E i \in 1 .. Len(snap) :
          /\ snap[i].id = hist[1].id
          /\ snap[i].status # "Done"
          /\ snap[i].completedAt = Undefined
          /\ snap[i].createdAt < now
          /\ tasks[i].status = "Done"

\* C7: right after an updateTask whose patch holds no completedAt, every
\* task that had a completedAt has the same completedAt.
C7_CompletedAtKept ==
    (/\ JustCalled("updateTask")
     /\ hist[1].arg.completedAt = Absent)
    => /\ Len(tasks) = Len(snap)
       /\ \A i \in 1 .. Len(snap) :
             snap[i].completedAt # Undefined
             => tasks[i].completedAt = snap[i].completedAt

\* C7's case: the latest call was updateTask with a patch of status Done
\* alone on a task that was Done already and completed on an earlier day.
C7_Witness ==
    /\ JustCalled("updateTask")
    /\ hist[1].arg = [NoPatch EXCEPT !.status = <<"Done">>]
    /\ \E i \in 1 .. Len(snap) :
          /\ snap[i].id = hist[1].id
          /\ snap[i].status = "Done"
          /\ snap[i].completedAt # Undefined
          /\ snap[i].completedAt < now

\* C8: right after an updateTask, every task has the createdAt it had.
C8_CreatedAtImmutable ==
    JustCalled("updateTask")
    => /\ Len(tasks) = Len(snap)
       /\ \A i \in 1 .. Len(snap) : tasks[i].createdAt = snap[i].createdAt

\* C9: right after addTask(data) the list is the earlier list with one task
\* appended; the new task has data.id when given and else a UUID, which no
\* earlier task has, the status of data, timeTaken 1 when data's is not
\* positive and data's otherwise, createdAt the current time, and a
\* completedAt exactly when the status is Done.
C9_AddAppendsOne ==
    JustCalled("addTask")
    => LET data == hist[1].arg
       IN  /\ Len(tasks) = Len(snap) + 1
           /\ \A i \in 1 .. Len(snap) : tasks[i] = snap[i]
           /\ LET t == tasks[Len(tasks)]
              IN  /\ data.id # Absent => t.id = data.id[1]
                  /\ data.id = Absent =>
                        /\ t.id \notin CallerIds
                        /\ t.id \notin IdsOf(snap)
                        /\ t.id # Undefined
                  /\ t.status = data.status
                  /\ t.timeTaken = IF data.timeTaken > 0 THEN data.timeTaken
                                   ELSE 1
                  /\ t.createdAt = now
                  /\ (t.completedAt # Undefined) <=> (data.status = "Done")

\* C9's case: the latest call was addTask of a Todo task with timeTaken 0
\* and no id, on a list that was not empty, after the clock advanced.
C9_Witness ==
    /\ JustCalled("addTask")
    /\ hist[1].arg = [id |-> Absent, status |-> "Todo", timeTaken |-> 0]
    /\ Len(snap) >= 1
    /\ now > StartDay

\* C10: right after updateTask(id, patch) the list has the length it had,
\* every task whose id was not id is what and where it was, and the undo
\* candidate and the error are what they were; when no task had the id the
\* list is what it was.
C10_UpdateFrame ==
    JustCalled("updateTask")
    => /\ Len(tasks) = Len(snap)
       /\ \A i \in 1 .. Len(snap) :
             snap[i].id # hist[1].id => tasks[i] = snap[i]
       /\ lastDeleted = hist[1].candidate
       /\ error = "null"
       /\ ~hist[1].hit => tasks = snap

\* C10's case: the latest call was updateTask on a task of the list, which
\* changed it, while a task with another id was in the list and an undo
\* candidate was held.
C10_Witness ==
    /\ JustCalled("updateTask")
    /\ hist[1].hit
    /\ hist[1].candidate # null
    /\ tasks # snap
    /\ \E i \in 1 .. Len(snap) : snap[i].id # hist[1].id

\* C11: right after sanitizeTasks(input) the returned tasks have pairwise
\* different ids, a record that is the first of the input with its id (an id
\* it has) keeps that id, and a record whose id an earlier record has gets
\* another id.
C11_SanitizerUniqueIds ==
    JustCalled("sanitizeTasks")
    => /\ Len(tasks) = Len(snap)
       /\ \A i, j \in 1 .. Len(tasks) : i # j => tasks[i].id # tasks[j].id
       /\ \A i \in 1 .. Len(snap) :
             snap[i].id # Undefined
             => IF \A j \in 1 .. (i - 1) : snap[j].id # snap[i].id
                THEN tasks[i].id = snap[i].id
                ELSE tasks[i].id # snap[i].id

\* C11's case: sanitizeTasks was applied to an array whose first two records
\* have the same id, and the first kept it.
C11_Witness ==
    /\ JustCalled("sanitizeTasks")
    /\ Len(snap) >= 2
    /\ snap[1].id # Undefined
    /\ snap[2].id = snap[1].id
    /\ tasks[1].id = snap[1].id

\* the ids of the tasks generateSalesTasks makes
SeedIds == {MaxCallerId + i : i \in 1 .. SeedCount}

\* the list is the generated fallback list, sanitized
SeedLoaded == Len(tasks) = SeedCount /\ IdsOf(tasks) = SeedIds

\* C12: once the fetch has failed, while the effect is set up, error is a
\* message, the task list is empty and loading is false.
C12_FailedLoadSurfaces ==
    (JustCalled("LoadReject") /\ effect # "none")
    => /\ error # "null"
       /\ tasks = << >>
       /\ loading = FALSE

C14_FetchOnce ==
    /\ [](fetchedRef <=> fetchState # "idle")
    /\ [][/\ (effect = "none" /\ effect' # "none")
             => IF fetchState = "idle"
                THEN effect' = "loader" /\ fetchState' = "pending"
                ELSE effect' = "guarded" /\ fetchState' = fetchState
          /\ fetchState' # fetchState
             => <<fetchState, fetchState'>>
                   \in {<<"idle", "pending">>, <<"pending", "settled">>}]_vars

\* C14's case: a later run of the effect has returned at the guard, after
\* the teardown of the run that started the fetch.
C14_Witness ==
    /\ effect = "guarded"
    /\ fetchedRef
    /\ ~isMounted

\* C15: a step in which the fetch settles after the teardown of the effect
\* run that started it leaves tasks, error and loading as they are.
C15_TeardownSuppressesWrites ==
    [][(fetchState = "pending" /\ fetchState' = "settled" /\ ~isMounted)
       => UNCHANGED <<tasks, error, loading>>]_vars

\* C15's case: the fetch has settled after the teardown, the effect has not
\* run again, and nothing was written.
C15_Witness ==
    /\ Len(hist) = 1
    /\ fetchState = "settled"
    /\ ~isMounted
    /\ effect = "none"
    /\ loading = TRUE
    /\ error = "null"
    /\ tasks = << >>

\* C18: whenever the fetch has settled and the effect is set up, in the end
\* loading is false and the task list or the error is set.
C18_LoadCompletes ==
    (fetchState = "settled" /\ effect # "none")
    ~> (loading = FALSE /\ (tasks # << >> \/ error # "null"))

\* C16: in every reachable state whose task list is empty, every numeric
\* field of the metrics is 0 and performanceGrade is 'Needs Improvement'.
C16_EmptyListDefaultMetrics ==
    tasks = << >>
    => LET m == metrics(tasks)
       IN  /\ m.totalRevenue = 0
           /\ m.totalTimeTaken = 0
           /\ m.timeEfficiencyPct = 0
           /\ m.revenuePerHour = 0
           /\ m.averageROI = 0
           /\ m.performanceGrade = "Needs Improvement"

\* C16's case: the list was loaded and the latest call, a deleteTask, removed
\* its last task.
C16_Witness ==
    /\ tasks = << >>
    /\ fetchState = "settled"
    /\ loading = FALSE
    /\ Len(hist) >= 1
    /\ IsDelete(hist[Len(hist)])
    /\ hist[Len(hist)].hit

\* C19: a step takes the last task with some id out of the list only when
\* it is deleteTask of that id.
C19_AddedTaskSurvivesLoad ==
    [][\A id \in IdsOf(tasks) : id \notin IdsOf(tasks') => deleteTask(id)]_vars

\* C17: right after sanitizeTasks(input), each task made from a record that
\* is Done and has no completedAt has the completedAt that normalizeTasks
\* gives that record, which is one day after the task's createdAt.
C17_SanitizerCompletesAsNormalizer ==
    JustCalled("sanitizeTasks")
    => \A i \in 1 .. Len(snap) :
          (snap[i].status = "Done" /\ snap[i].completedAt = Undefined)
          => /\ tasks[i].completedAt =
                   normalizeTasks(JsonArray(snap), now)[i].completedAt
             /\ tasks[i].completedAt = tasks[i].createdAt + 1

\* C20: after a deleteTask that removed a task, and any invocations of
\* undoDelete since, one at a time or two before a render, at most one task
\* of the list has the id of the removed task.
C20_OneReinsertion ==
    LET n == Len(hist)
    IN  \A k \in 1 .. n :
           (/\ IsDelete(hist[k]) /\ hist[k].hit
            /\ \A m \in (k + 1) .. n :
                  hist[m].op \in {"undoDelete", "undoDeleteTwice"})
           => Cardinality({i \in 1 .. Len(tasks) : tasks[i].id = hist[k].id})
                 <= 1

====
